---- MODULE Spec2Model ----
(***************************************************************************)
(* Stream-cipher chat with Diffie-Hellman key agreement (rust_03).         *)
(*                                                                         *)
(* Unsigned machine integers are little-endian tuples of bytes (limb i has *)
(* weight 256^(i-1)): a u64 is 8 limbs, a u128 is 16.  TLC's own integers  *)
(* are 32-bit, so every u64/u128 operation of the program is carried out   *)
(* limb by limb, with the width of the Rust type it models.                *)
(***************************************************************************)
EXTENDS Integers, Sequences, FiniteSets, TLC

(***************************************************************************)
(* Evaluation idiom.  An operator's operand is re-evaluated at every use,  *)
(* so an operand that is used more than once is first bound to its value:  *)
(*     CHOOSE out \in {body(v) : v \in {e}} : TRUE                         *)
(* evaluates e once, binds the value to v and yields body(v).  It is       *)
(* LET v == e IN body(v) with the evaluation order fixed.                  *)
(***************************************************************************)

\* A sequence-valued expression as an explicit tuple.
Tup(f) == f \o <<>>

RECURSIVE Iterate(_, _, _)
\* A loop of n rounds: F applied n times to the loop state s (evaluated by
\* halving, so that the evaluation depth grows with log n).
Iterate(F(_), s, n) ==
    IF n > 1
    THEN CHOOSE out \in {Iterate(F, mid, n - (n \div 2)) :
                           mid \in {Iterate(F, s, n \div 2)}} : TRUE
    ELSE IF n = 1 THEN F(s) ELSE s

(***************************************************************************)
(* Fixed-width unsigned arithmetic.                                        *)
(***************************************************************************)
U64Bytes == 64 \div 8
U128Bytes == 128 \div 8

\* One round of carry propagation, on all columns at once: a column keeps
\* its low byte and receives the high part of the column below it.
CarryRound(c) ==
    Tup([i \in 1..Len(c) |->
            (c[i] % 256) + (IF i > 1 THEN c[i - 1] \div 256 ELSE 0)])

\* The last round, for columns in 0..256: a column receives a carry when a
\* column below it holds 256 and every column in between holds 255.
Ripple(c) ==
    Tup([i \in 1..Len(c) |->
            (c[i] + (IF \E j \in 1..(i - 1) :
                          /\ c[j] = 256
                          /\ \A k \in (j + 1)..(i - 1) : c[k] = 255
                     THEN 1 ELSE 0)) % 256])

\* The number whose columns (weights 256^(i-1)) are cols, each in 0..2^20,
\* as limbs: its value modulo 256^Len(cols).  Three rounds bring every
\* column into 0..256.
Normalize(cols) ==
    CHOOSE out \in
        {Ripple(c3) : c3 \in
            {CarryRound(c2) : c2 \in
                {CarryRound(c1) : c1 \in
                    {CarryRound(c0) : c0 \in {Tup(cols)}}}}} : TRUE

\* `x as u128` / `x as u64`: zero-extend or truncate to n limbs.
Resize(x, n) ==
    CHOOSE out \in
        {Tup([i \in 1..n |-> IF i <= Len(v) THEN v[i] ELSE 0]) :
            v \in {Tup(x)}} : TRUE

RECURSIVE FromNat(_, _)
FromNat(v, n) == IF n = 0 THEN <<>> ELSE <<v % 256>> \o FromNat(v \div 256, n - 1)

U64(v) == FromNat(v, U64Bytes)
U128(v) == FromNat(v, U128Bytes)

RECURSIVE ToNat(_)
\* Value of a limb tuple that is known to be small.
ToNat(x) == IF x = <<>> THEN 0 ELSE x[1] + 256 * ToNat(Tail(x))

IsZero(x) == \A v \in {Tup(x)} : \A i \in 1..Len(v) : v[i] = 0

\* Index of the most significant non-zero limb, 0 for zero.
TopLimb(x) ==
    CHOOSE t \in 0..Len(x) :
        /\ t > 0 => x[t] # 0
        /\ \A j \in (t + 1)..Len(x) : x[j] = 0

Limb(x, i) == IF i >= 1 /\ i <= Len(x) THEN x[i] ELSE 0

wrapping_add(x, y) ==
    CHOOSE out \in
        {Normalize([i \in 1..Len(v) |-> v[i] + w[i]]) :
            v \in {Tup(x)}, w \in {Tup(y)}} : TRUE

\* x - y for x >= y, as x + !y + 1 modulo 256^Len(x).
Sub(x, y) ==
    CHOOSE out \in
        {Normalize([i \in 1..Len(v) |->
                       v[i] + (255 - w[i]) + (IF i = 1 THEN 1 ELSE 0)]) :
            v \in {Tup(x)}, w \in {Tup(y)}} : TRUE

RECURSIVE SumProd(_, _, _, _, _)
\* Sum over i in lo..hi of x[i] * y[k + 1 - i].
SumProd(x, y, k, lo, hi) ==
    IF lo > hi THEN 0
    ELSE IF lo = hi THEN x[lo] * y[k + 1 - lo]
    ELSE SumProd(x, y, k, lo, (lo + hi) \div 2)
         + SumProd(x, y, k, ((lo + hi) \div 2) + 1, hi)

Max(a, b) == IF a >= b THEN a ELSE b
Min(a, b) == IF a <= b THEN a ELSE b

\* Schoolbook product of two bound tuples, column by column; limbs above
\* the top limb of x and of y are zero and add nothing.
MulColumns(x, y) ==
    CHOOSE out \in
        {Normalize([k \in 1..Len(x) |->
                       SumProd(x, y, k, Max(1, k + 1 - ty), Min(k, tx))]) :
            tx \in {TopLimb(x)}, ty \in {TopLimb(y)}} : TRUE

\* Product modulo 256^Len(x): u64::wrapping_mul on 8 limbs, the u128 `*` on 16.
wrapping_mul(x, y) ==
    CHOOSE out \in {MulColumns(v, w) : v \in {Tup(x)}, w \in {Tup(y)}} : TRUE

\* x < y, for operands already bound to tuples of equal length.
Less(x, y) ==
    \E i \in 1..Len(x) :
        /\ x[i] < y[i]
        /\ \A j \in (i + 1)..Len(x) : x[j] = y[j]

\* x * q for a byte q.
MulByte(x, q) == Normalize([i \in 1..Len(x) |-> x[i] * q])

\* One step of long division in base 256: for r < 256 * m, r mod m.  The
\* quotient digit is estimated from the leading limbs (t is m's top limb, m2
\* its two leading limbs); the estimate is at most 2 below the digit, which
\* two conditional subtractions make up for.
RemStep(r, m, t, m2) ==
    CHOOSE out \in
        {IF Less(r2, m) THEN r2 ELSE Sub(r2, m) : r2 \in
            {IF Less(r1, m) THEN r1 ELSE Sub(r1, m) : r1 \in
                {IF q = 0 THEN r ELSE Sub(r, MulByte(m, q)) : q \in
                    {(Limb(r, t + 1) * 65536 + Limb(r, t) * 256
                        + Limb(r, t - 1)) \div (m2 + 1)}}}} : TRUE

\* Long division, most significant limb of x first: the loop state is
\* <<i, r>>, the next limb to bring down and the running remainder.
RemLoop(x, m, t, m2) ==
    Iterate(LAMBDA st :
                CHOOSE out \in
                    {<<i - 1, RemStep(r, m, t, m2)>> :
                        i \in {st[1]},
                        r \in {<<x[st[1]]>> \o SubSeq(st[2], 1, Len(x))}} : TRUE,
            <<Len(x), Resize(<<>>, Len(x) + 1)>>, Len(x))[2]

\* <<t, m2>> for a bound tuple m: its top limb and its two leading limbs.
Leading(m) ==
    CHOOSE out \in
        {<<t, Limb(m, t) * 256 + Limb(m, t - 1)>> : t \in {TopLimb(m)}} : TRUE

\* x mod 256^t for bound tuples: the low t limbs of x.
LowLimbs(x, t) == Tup([i \in 1..Len(x) |-> IF i <= t THEN x[i] ELSE 0])

\* m = 256^(t - 1), for a bound tuple m with top limb t.
IsPowerOf256(m, t) == t > 0 /\ m[t] = 1 /\ \A j \in 1..(t - 1) : m[j] = 0

\* The `%` operator on unsigned integers: x mod m, for m # 0, in Len(x)
\* limbs; by long division, or by masking when m is a power of 256.
Rem(x, m) ==
    CHOOSE out \in
        {CHOOSE r \in
            {IF IsPowerOf256(w, lead[1])
             THEN LowLimbs(v, lead[1] - 1)
             ELSE Resize(RemLoop(v, w1, lead[1], lead[2]), Len(v)) :
                w1 \in {Resize(w, Len(v) + 1)}, lead \in {Leading(w)}} : TRUE :
            v \in {Tup(x)}, w \in {Tup(m)}} : TRUE

\* `x >>= 1`
ShiftRight1(x) ==
    CHOOSE out \in
        {Tup([i \in 1..Len(v) |->
                (v[i] \div 2)
                + (IF i < Len(v) THEN (v[i + 1] % 2) * 128 ELSE 0)]) :
            v \in {Tup(x)}} : TRUE

RECURSIVE XorBits(_, _)
XorBits(a, b) ==
    IF a = 0 THEN b
    ELSE IF b = 0 THEN a
    ELSE ((a + b) % 2) + 2 * XorBits(a \div 2, b \div 2)

\* `a ^ b` on bytes.
BitXor(a, b) == CHOOSE out \in {XorBits(v, w) : v \in {a}, w \in {b}} : TRUE

\* u64::to_be_bytes / u64::from_be_bytes: the wire carries the most
\* significant byte first.
Reverse(s) ==
    CHOOSE out \in
        {Tup([i \in 1..Len(v) |-> v[Len(v) + 1 - i]]) : v \in {Tup(s)}} : TRUE
to_be_bytes(x) == Reverse(x)
from_be_bytes(buf) == Reverse(buf)

(***************************************************************************)
(* Program constants.                                                      *)
(***************************************************************************)
\* const P: u64 = 0xD87FA3E291B4C7F3
P == from_be_bytes(<<\hD8, \h7F, \hA3, \hE2, \h91, \hB4, \hC7, \hF3>>)
G == 2
A == 1103515245
C == 12345
\* const M: u64 = 1u64 << 32
M == [i \in 1..U64Bytes |-> IF i = (32 \div 8) + 1 THEN 1 ELSE 0]

(***************************************************************************)
(* modular_pow: square-and-multiply with u128 intermediates.               *)
(***************************************************************************)
\* One round of `while exp > 0 { ... }` on the loop state
\* <<result, base_128, exp>>; a round with exp = 0 leaves the state alone.
PowRound(st, modulus_128) ==
    IF IsZero(st[3]) THEN st
    ELSE CHOOSE out \in
           {<<IF exp[1] % 2 = 1
              THEN Rem(wrapping_mul(result, base_128), modulus_128)
              ELSE result,
              IF ~IsZero(ShiftRight1(exp))
              THEN Rem(wrapping_mul(base_128, base_128), modulus_128)
              ELSE base_128,
              ShiftRight1(exp)>> :
               result \in {st[1]}, base_128 \in {st[2]}, exp \in {st[3]}} : TRUE

\* The loop runs once per bit of exp up to its leading one: at most
\* 8 * Len(exp) rounds.
PowLoop(result, base_128, exp, modulus_128) ==
    Iterate(LAMBDA st : PowRound(st, modulus_128),
            <<result, base_128, exp>>, 8 * Len(exp))[1]

\* modular_pow with the products taken in u64 instead of u128.
modular_pow_u64(base, exp, modulus) ==
    CHOOSE out \in
        {IF m = U64(1) THEN U64(0)
         ELSE PowLoop(U64(1), Rem(b, m), e, m) :
            b \in {Tup(base)}, e \in {Tup(exp)}, m \in {Tup(modulus)}} : TRUE

\* fn modular_pow(base, exp, modulus): 0 for modulus 1; otherwise the loop on
\* result = 1u128, base % modulus as u128 and modulus as u128, and
\* `result as u64` at the end.
modular_pow(base, exp, modulus) ==
    CHOOSE out \in
        {IF m = U64(1) THEN U64(0)
         ELSE Resize(PowLoop(U128(1), Resize(Rem(b, m), U128Bytes), e,
                             Resize(m, U128Bytes)), U64Bytes) :
            b \in {Tup(base)}, e \in {Tup(exp)}, m \in {Tup(modulus)}} : TRUE

(***************************************************************************)
(* StreamCipher: the LCG keystream generator and the XOR encoder.          *)
(***************************************************************************)
\* StreamCipher::new(seed)
StreamCipher(seed) == [state |-> seed]

\* LcgStep without the reduction modulo M.
LcgStepUnreduced(state) == wrapping_add(wrapping_mul(U64(A), state), U64(C))

\* self.state = (A.wrapping_mul(self.state).wrapping_add(C)) % M
LcgStep(state) == Rem(wrapping_add(wrapping_mul(U64(A), state), U64(C)), M)

\* next_byte: the generator after the call, and the byte returned
\* ((self.state & 0xFF) as u8: the low limb).
next_byte(self) ==
    CHOOSE out \in
        {[self |-> [state |-> s], byte |-> s[1]] :
            s \in {LcgStep(self.state)}} : TRUE

\* One element of plaintext.iter().map(|&b| b ^ self.next_byte()), on the
\* loop state <<generator, bytes produced so far>>.
EncryptRound(st, plaintext) ==
    CHOOSE out \in
        {<<nb.self, Append(st[2], BitXor(plaintext[Len(st[2]) + 1], nb.byte))>> :
            nb \in {next_byte(st[1])}} : TRUE

\* encrypt working on a copy of the generator: the caller's generator is
\* left where it was.
encrypt_on_copy(self, plaintext) ==
    CHOOSE out \in
        {[self |-> c,
          out |-> Iterate(LAMBDA st : EncryptRound(st, pt), <<c, <<>>>>, Len(pt))[2]] :
            c \in {self}, pt \in {Tup(plaintext)}} : TRUE

\* plaintext.iter().map(|&b| b ^ self.next_byte()).collect(): the generator
\* after the call, and the bytes produced.
encrypt(self, plaintext) ==
    CHOOSE out \in
        {[self |-> r[1], out |-> r[2]] :
            r \in {Iterate(LAMBDA st : EncryptRound(st, pt), <<c, <<>>>>, Len(pt)) :
                     c \in {self}, pt \in {Tup(plaintext)}}} : TRUE

\* decrypt on a generator that is one byte ahead.
decrypt_one_ahead(self, ciphertext) == encrypt(next_byte(self).self, ciphertext)

\* self.encrypt(ciphertext): XOR is symmetric.
decrypt(self, ciphertext) == encrypt(self, ciphertext)

\* for _ in 0..count { cipher.next_byte(); } with a small count (a length):
\* the generator after the loop.
Skip(self, count) == Iterate(LAMBDA c : next_byte(c).self, self, count)

\* print_keystream(cipher, count): count calls of next_byte whose bytes are
\* only printed; what remains is the advanced generator.
print_keystream(cipher, count) == Skip(cipher, count)

\* JumpTable[k] = <<a, c>>: the affine map s -> a*s + c (wrapping u64
\* arithmetic) that 2^(k-1) successive LCG steps apply before the final
\* reduction % M; one step is <<A, C>>, and doubling composes a map with
\* itself.
JumpTable ==
    Iterate(LAMBDA t :
                CHOOSE out \in
                    {Append(t, <<wrapping_mul(a, a), wrapping_add(wrapping_mul(a, c), c)>>) :
                        a \in {t[Len(t)][1]}, c \in {t[Len(t)][2]}} : TRUE,
            <<<<U64(A), U64(C)>>>>, (8 * U64Bytes) - 1)

\* Bit k (from 1, the lowest) of the unsigned integer n.
Bit(n, k) == (n[((k - 1) \div 8) + 1] \div (2 ^ ((k - 1) % 8))) % 2

\* One round of jumping ahead on the loop state <<state, k>>: when bit k of
\* the step count n is set, 2^(k-1) LCG steps are applied to state at once.
JumpRound(st, n) ==
    CHOOSE out \in
        {<<IF Bit(n, k) = 1
           THEN Rem(wrapping_add(wrapping_mul(JumpTable[k][1], state),
                                 JumpTable[k][2]), M)
           ELSE state,
           k + 1>> :
            state \in {st[1]}, k \in {st[2]}} : TRUE

\* The state after n calls of next_byte, n a u64, by binary decomposition
\* of n.
Jump(state, n) ==
    Iterate(LAMBDA st : JumpRound(st, n), <<state, 1>>, 8 * Len(n))[1]

\* for _ in 0..cipher.state { fresh.next_byte(); }: the loop count is the
\* u64 held in the long-lived generator's state field.
FastForward(fresh, count) ==
    CHOOSE out \in
        {[state |-> Jump(s, n)] : s \in {fresh.state}, n \in {Tup(count)}} : TRUE

(***************************************************************************)
(* The session: one client (initiator) and one server (responder) process  *)
(* joined by one TCP connection.                                           *)
(***************************************************************************)
Peers == {"client", "server"}

Other(p) == IF p = "client" THEN "server" ELSE "client"

\* Both roles take the server's branch of the exchange.
is_server_both(p) == TRUE

\* perform_dh_exchange(stream, is_server): run_server passes true,
\* run_client false.
is_server(p) == p = "server"

\* A u64 variable that holds no value yet.
NoKey == <<>>

\* No StreamCipher constructed yet.
NoCipher == [state |-> NoKey]

\* `x >> n`
ShiftRight(x, n) == Iterate(LAMBDA v : ShiftRight1(v), x, n)

\* `x << n` for n below 31: the bits shifted out of the 64 are dropped.
ShiftLeft(x, n) == wrapping_mul(x, U64(2 ^ n))

\* `x ^ y` on u64.
Xor64(x, y) ==
    CHOOSE out \in
        {Tup([i \in 1..Len(v) |-> BitXor(v[i], w[i])]) :
            v \in {Tup(x)}, w \in {Tup(y)}} : TRUE

\* x ^= x >> 12; x ^= x << 25; x ^= x >> 27;
XorshiftRound(x) ==
    CHOOSE out \in
        {Xor64(x2, ShiftRight(x2, 27)) : x2 \in
            {Xor64(x1, ShiftLeft(x1, 25)) : x1 \in
                {Xor64(x0, ShiftRight(x0, 12)) : x0 \in {Tup(x)}}}} : TRUE

\* let mut x = seed | 1; five rounds of xorshift;
\* let private_key: u64 = 2 + (x % (P - 3));
private_key_of(seed) ==
    CHOOSE out \in
        {wrapping_add(U64(2), Rem(x, Sub(P, U64(3)))) : x \in
            {Iterate(LAMBDA v : XorshiftRound(v),
                     [sd EXCEPT ![1] = IF @ % 2 = 0 THEN @ + 1 ELSE @], 5) :
                sd \in {Tup(seed)}}} : TRUE

\* SystemTime::now().duration_since(UNIX_EPOCH).unwrap().as_nanos() as u64:
\* the clock readings of the model.  3341420602508924143 gives the smallest
\* private key, 2; 6413118322039018215 the largest, P - 2;
\* 17759126425483784091 gives 216529413, which with the key 2 makes the
\* shared secret 0x436EE45E6C69D85D; 1700000000000000000, a reading of the
\* year 2023, gives 0xB2D3943EF052F84F.
ClockReadings ==
    {<<\hEF, \h54, \hB7, \h99, \h55, \h1C, \h5F, \h2E>>,
     <<\hE7, \h52, \hAF, \hBF, \h22, \hF9, \hFF, \h58>>,
     <<\h9B, \hAF, \h36, \h60, \h64, \h17, \h75, \hF6>>,
     <<\h00, \h00, \h2A, \h36, \hFE, \h9C, \h97, \h17>>}

\* The private keys perform_dh_exchange can draw in the model.
PrivKeys == {private_key_of(seed) : seed \in ClockReadings}

\* let public_key = modular_pow(G, private_key, P)
public_key(private_key) == modular_pow(U64(G), private_key, P)

\* shared_secret with base and exponent exchanged.
shared_secret_swapped(their_public_key, private_key) ==
    modular_pow(private_key, their_public_key, P)

\* let shared_secret = modular_pow(their_public_key, private_key, P)
shared_secret(their_public_key, private_key) ==
    modular_pow(their_public_key, private_key, P)

\* (n as u32).to_be_bytes(): the 4-byte length header.
LenHeader(n) == to_be_bytes(FromNat(n, 32 \div 8))

\* u32::from_be_bytes(len_buf) as usize
HeaderLen(len_buf) == ToNat(from_be_bytes(len_buf))

\* s[i] is a continuation byte of UTF-8.
IsCont(s, i) == i <= Len(s) /\ s[i] \in 128..191

\* Number of bytes of the well-formed UTF-8 character that starts at s[i], 0
\* when none does (overlong forms, surrogates and values above U+10FFFF are
\* not well formed).
CharLen(s, i) ==
    LET b == s[i]
        c == IF i < Len(s) THEN s[i + 1] ELSE 0
    IN  IF b < 128 THEN 1
        ELSE IF b \in 194..223 /\ IsCont(s, i + 1) THEN 2
        ELSE IF /\ \/ b = 224 /\ c \in 160..191
                   \/ b \in (225..236) \cup (238..239) /\ c \in 128..191
                   \/ b = 237 /\ c \in 128..159
                /\ IsCont(s, i + 2) THEN 3
        ELSE IF /\ \/ b = 240 /\ c \in 144..191
                   \/ b \in 241..243 /\ c \in 128..191
                   \/ b = 244 /\ c \in 128..143
                /\ IsCont(s, i + 2) /\ IsCont(s, i + 3) THEN 4
        ELSE 0

RECURSIVE Utf8From(_, _)
Utf8From(s, i) ==
    IF i > Len(s) THEN TRUE
    ELSE \E n \in {CharLen(s, i)} : n > 0 /\ Utf8From(s, i + n)

\* str::from_utf8(bytes).is_ok(): read_line returns an InvalidData error
\* when the bytes it read are not UTF-8.
is_utf8(bytes) == \A s \in {Tup(bytes)} : Utf8From(s, 1)

\* char::is_whitespace, on the UTF-8 encodings of the characters: U+0009 to
\* U+000D, U+0020, U+0085, U+00A0, U+1680, U+2000 to U+200A, U+2028, U+2029,
\* U+202F, U+205F and U+3000.
WhiteSpace ==
    {<<b>> : b \in (9..13) \cup {32}}
      \cup {<<194, 133>>, <<194, 160>>, <<225, 154, 128>>}
      \cup {<<226, 128, b>> : b \in (128..138) \cup {168, 169, 175}}
      \cup {<<226, 129, 159>>, <<227, 128, 128>>}

StartsWith(s, w) == Len(w) <= Len(s) /\ SubSeq(s, 1, Len(w)) = w
EndsWith(s, w) == Len(w) <= Len(s) /\ SubSeq(s, Len(s) - Len(w) + 1, Len(s)) = w

RECURSIVE trim_start(_)
\* str::trim_start: without the leading whitespace characters.
trim_start(s) ==
    IF \E w \in WhiteSpace : StartsWith(s, w)
    THEN trim_start(SubSeq(s, 1 + Len(CHOOSE w \in WhiteSpace : StartsWith(s, w)),
                           Len(s)))
    ELSE s

RECURSIVE trim_end(_)
\* str::trim_end: without the trailing whitespace characters.
trim_end(s) ==
    IF \E w \in WhiteSpace : EndsWith(s, w)
    THEN trim_end(SubSeq(s, 1, Len(s)
                           - Len(CHOOSE w \in WhiteSpace : EndsWith(s, w))))
    ELSE s

\* input.trim(): the line, which is UTF-8, without leading and trailing
\* whitespace characters.
trim(input) ==
    CHOOSE out \in
        {trim_end(t) : t \in {trim_start(v) : v \in {Tup(input)}}} : TRUE

\* let mut encipher = StreamCipher::new(shared_secret);
\* for _ in 0..cipher.state { encipher.next_byte(); }
\* (and the same for decipher): a fresh generator seeded with the shared
\* secret, advanced as many times as the value of the long-lived cipher's
\* state field.
Positioned(shared_secret_, cipher_) ==
    FastForward(StreamCipher(shared_secret_), cipher_.state)

\* Encode with the long-lived cipher advanced once for an empty message.
EncodeEmptyAdvances(encipher, cipher_, message) ==
    [cipher |-> Skip(cipher_, Max(1, Len(message))),
     encrypted |-> encrypt(encipher, message).out]

\* The rest of the send turn up to the first write: the "Key:" loop advances
\* the long-lived cipher by one next_byte per message byte, and encipher
\* encrypts the message.
Encode(encipher, cipher_, message) ==
    CHOOSE out \in
        {[cipher |-> Skip(c, Len(m)), encrypted |-> encrypt(e, m).out] :
            e \in {encipher}, c \in {cipher_}, m \in {Tup(message)}} : TRUE

\* Decode with the "Key:" loop printing without calling next_byte on the
\* long-lived cipher.
DecodeNoAdvance(decipher, cipher_, encrypted_) ==
    [cipher |-> cipher_, decrypted |-> decrypt(decipher, encrypted_).out]

\* The receive turn after the payload is read: decipher decrypts it, and the
\* "Key:" loop advances the long-lived cipher by one next_byte per decrypted
\* byte.
Decode(decipher, cipher_, encrypted_) ==
    CHOOSE out \in
        {[cipher |-> Skip(c, Len(d)), decrypted |-> d] :
            c \in {cipher_},
            d \in {decrypt(g, e).out :
                     g \in {decipher}, e \in {Tup(encrypted_)}}} : TRUE

\* The header error returned with `?`, like the payload error.
on_header_err_returned == "err"

\* if reader.read_exact(&mut len_buf).is_err() { break; } and the Ok(())
\* after the loop: the process ends with success.
on_header_err == "ok"

\* reader.read_exact(&mut encrypted)?: the error is returned from run_server
\* or run_client, and from main.
on_payload_err == "err"

\* Lines the operator can type: "hi\n", " ok.\r\n", "\n", "hi\n" between
\* two no-break spaces (U+00A0), and the bytes ff 0a, which are not UTF-8;
\* the empty string is what read_line leaves in input at end of input (it
\* returns Ok(0)).  Every send turn reads afresh: on a terminal a line can
\* follow an end of input.
Lines ==
    {<<104, 105, 10>>, <<32, 111, 107, 46, 13, 10>>, <<10>>,
     <<194, 160, 104, 105, 194, 160, 10>>, <<255, 10>>, <<>>}

\* Envelopes each peer may encode in a run of the model.
MaxMsgs == 2

VARIABLES pc, priv, pub, their, secret, cipher, encrypted, len, net, open,
          outcome, sent, rcvd, wire, ops, lab

chan == <<net, open>>
keys == <<priv, pub, their, secret>>
logs == <<sent, rcvd, wire>>
session == <<pc, priv, pub, their, secret, cipher, encrypted, len, net, open,
             outcome, sent, rcvd, wire, ops>>
vars == <<pc, priv, pub, their, secret, cipher, encrypted, len, net, open,
          outcome, sent, rcvd, wire, ops, lab>>

\* Both processes started and connected (TcpStream::connect returned,
\* listener.accept returned), about to enter perform_dh_exchange.
Connected ==
    /\ pc = [p \in Peers |-> "keygen"]
    /\ priv = [p \in Peers |-> NoKey]
    /\ pub = [p \in Peers |-> NoKey]
    /\ their = [p \in Peers |-> NoKey]
    /\ secret = [p \in Peers |-> NoKey]
    /\ cipher = [p \in Peers |-> NoCipher]
    /\ encrypted = [p \in Peers |-> <<>>]
    /\ len = [p \in Peers |-> 0]
    /\ net = [p \in Peers |-> <<>>]
    /\ open = [p \in Peers |-> TRUE]
    /\ outcome = [p \in Peers |-> "running"]
    /\ sent = [p \in Peers |-> <<>>]
    /\ rcvd = [p \in Peers |-> <<>>]
    /\ wire = [p \in Peers |-> <<>>]
    /\ ops = [p \in Peers |-> <<>>]

Init == Connected /\ lab = "session"

\* Exit with the process left where it was, to make the failed step again.
ExitAndRetry(p, how) ==
    /\ pc' = pc
    /\ outcome' = [outcome EXCEPT ![p] = how]
    /\ open' = [open EXCEPT ![p] = FALSE]
    /\ net' = [net EXCEPT ![p] = <<>>]

\* The process of p ends: its socket closes and what it had not read is lost.
Exit(p, how) ==
    /\ pc' = [pc EXCEPT ![p] = "done"]
    /\ outcome' = [outcome EXCEPT ![p] = how]
    /\ open' = [open EXCEPT ![p] = FALSE]
    /\ net' = [net EXCEPT ![p] = <<>>]

\* write_all(bytes) returned Ok: the bytes are queued for the peer, or
\* dropped when the peer's socket is closed already.
Written(p, bytes) ==
    /\ net' = [net EXCEPT ![Other(p)] = IF open[Other(p)] THEN @ \o bytes ELSE @]
    /\ UNCHANGED <<open, outcome>>

\* Every attempted operation on the connection or on local input, in order.
Log(p, op) == ops' = [ops EXCEPT ![p] = Append(@, op)]

\* Goto with the send turn repeated instead of followed by a receive turn.
GotoSendAgain(p, label) ==
    pc' = [pc EXCEPT ![p] = IF label = "recv_hdr" THEN "input" ELSE label]

\* Goto with the receive turn repeated instead of followed by a send turn.
GotoRecvAgain(p, label) ==
    pc' = [pc EXCEPT ![p] = IF label = "input" THEN "recv_hdr" ELSE label]

\* The process of p goes on at label.
Goto(p, label) == pc' = [pc EXCEPT ![p] = label]

\* perform_dh_exchange up to the exchange: the key pair.
Keygen(p) ==
    /\ pc[p] = "keygen"
    /\ \E private_key \in PrivKeys :
         /\ priv' = [priv EXCEPT ![p] = private_key]
         /\ pub' = [pub EXCEPT ![p] = public_key(private_key)]
    /\ Goto(p, IF is_server(p) THEN "dh_read" ELSE "dh_write")
    /\ UNCHANGED <<their, secret, cipher, encrypted, len, chan, outcome,
                   logs, ops, lab>>

\* Establish with the 12 preview bytes drawn by the server only.
EstablishUnevenPreview(p, their_public_key) ==
    \E s \in {shared_secret(their_public_key, priv[p])} :
        /\ secret' = [secret EXCEPT ![p] = s]
        /\ cipher' = [cipher EXCEPT ![p] =
                         print_keystream(StreamCipher(s),
                                         IF is_server(p) THEN 12 ELSE 0)]

\* The rest of perform_dh_exchange and the caller's StreamCipher::new and
\* print_keystream(&mut cipher, 12): the channel is established.
Establish(p, their_public_key) ==
    \E s \in {shared_secret(their_public_key, priv[p])} :
        /\ secret' = [secret EXCEPT ![p] = s]
        /\ cipher' = [cipher EXCEPT ![p] = print_keystream(StreamCipher(s), 12)]

\* stream.write_all(&public_key.to_be_bytes())?; stream.flush()?; the
\* server has both keys after it and goes on to its first receive turn.
DhWrite(p) ==
    /\ pc[p] = "dh_write"
    /\ Log(p, "dh_write")
    /\ \/ /\ Written(p, to_be_bytes(pub[p]))
          /\ IF is_server(p)
             THEN Establish(p, their[p]) /\ Goto(p, "recv_hdr")
             ELSE UNCHANGED <<secret, cipher>> /\ Goto(p, "dh_read")
       \/ /\ ~open[Other(p)]
          /\ Exit(p, "err")
          /\ UNCHANGED <<secret, cipher>>
    /\ UNCHANGED <<priv, pub, their, encrypted, len, logs, lab>>

\* stream.read_exact(&mut buf)?; u64::from_be_bytes(buf); the client has
\* both keys after it and goes on to its first send turn.
DhRead(p) ==
    /\ pc[p] = "dh_read"
    /\ Log(p, "dh_read")
    /\ \/ /\ Len(net[p]) >= U64Bytes
          /\ \E their_key \in {from_be_bytes(SubSeq(net[p], 1, U64Bytes))} :
               /\ their' = [their EXCEPT ![p] = their_key]
               /\ IF is_server(p)
                  THEN UNCHANGED <<secret, cipher>> /\ Goto(p, "dh_write")
                  ELSE Establish(p, their_key) /\ Goto(p, "input")
          /\ net' = [net EXCEPT ![p] = SubSeq(@, U64Bytes + 1, Len(@))]
          /\ UNCHANGED <<open, outcome>>
       \/ /\ Len(net[p]) < U64Bytes
          /\ ~open[Other(p)]
          /\ Exit(p, "err")
          /\ UNCHANGED <<their, secret, cipher>>
    /\ UNCHANGED <<priv, pub, encrypted, len, logs, lab>>

\* io::stdin().read_line(&mut input)?; let message = input.trim(); and the
\* encoding of the message, up to the first write.  read_line fails on bytes
\* that are not UTF-8, and the error is returned from run_server or
\* run_client, and from main.  Standard output is taken to be writable.
Input(p) ==
    /\ pc[p] = "input"
    /\ Len(sent[p]) < MaxMsgs
    /\ \E encipher \in {Positioned(secret[p], cipher[p])} :
         \E input \in Lines :
             IF is_utf8(input)
             THEN /\ Log(p, IF input = <<>> THEN "stdin_eof" ELSE "stdin")
                  /\ sent' = [sent EXCEPT ![p] = Append(@, trim(input))]
                  /\ \E enc \in {Encode(encipher, cipher[p], trim(input))} :
                       /\ cipher' = [cipher EXCEPT ![p] = enc.cipher]
                       /\ encrypted' = [encrypted EXCEPT ![p] = enc.encrypted]
                  /\ Goto(p, "send_hdr")
                  /\ UNCHANGED <<chan, outcome>>
             ELSE /\ Log(p, "stdin_err")
                  /\ Exit(p, "err")
                  /\ UNCHANGED <<sent, cipher, encrypted>>
    /\ UNCHANGED <<keys, len, rcvd, wire, lab>>

\* writer.write_all(&(encrypted.len() as u32).to_be_bytes())?
SendHdr(p) ==
    /\ pc[p] = "send_hdr"
    /\ Log(p, "write_hdr")
    /\ \/ Written(p, LenHeader(Len(encrypted[p]))) /\ Goto(p, "send_body")
       \/ ~open[Other(p)] /\ Exit(p, "err")
    /\ UNCHANGED <<keys, cipher, encrypted, len, logs, lab>>

\* writer.write_all(&encrypted)?; writer.flush()?; writing no bytes cannot
\* fail.
SendBody(p) ==
    /\ pc[p] = "send_body"
    /\ Log(p, "write_body")
    /\ \/ /\ Written(p, encrypted[p])
          /\ wire' = [wire EXCEPT ![p] = Append(@, encrypted[p])]
          /\ Goto(p, "recv_hdr")
       \/ /\ ~open[Other(p)]
          /\ encrypted[p] # <<>>
          /\ Exit(p, "err")
          /\ UNCHANGED wire
    /\ UNCHANGED <<keys, cipher, encrypted, len, sent, rcvd, lab>>

\* reader.read_exact(&mut len_buf) and the break when it fails.
RecvHdr(p) ==
    /\ pc[p] = "recv_hdr"
    /\ Log(p, "read_hdr")
    /\ \/ /\ Len(net[p]) >= 4
          /\ len' = [len EXCEPT ![p] = HeaderLen(SubSeq(net[p], 1, 4))]
          /\ net' = [net EXCEPT ![p] = SubSeq(@, 5, Len(@))]
          /\ Goto(p, "recv_body")
          /\ UNCHANGED <<open, outcome>>
       \/ /\ Len(net[p]) < 4
          /\ ~open[Other(p)]
          /\ Exit(p, on_header_err)
          /\ UNCHANGED len
    /\ UNCHANGED <<keys, cipher, encrypted, logs, lab>>

\* reader.read_exact(&mut encrypted)? and the decoding of the payload.
RecvBody(p) ==
    /\ pc[p] = "recv_body"
    /\ Log(p, "read_body")
    /\ \/ /\ Len(net[p]) >= len[p]
          /\ \E dec \in {Decode(Positioned(secret[p], cipher[p]), cipher[p],
                                 SubSeq(net[p], 1, len[p]))} :
               /\ cipher' = [cipher EXCEPT ![p] = dec.cipher]
               /\ rcvd' = [rcvd EXCEPT ![p] = Append(@, dec.decrypted)]
          /\ net' = [net EXCEPT ![p] = SubSeq(@, len[p] + 1, Len(@))]
          /\ Goto(p, "input")
          /\ UNCHANGED <<open, outcome>>
       \/ /\ Len(net[p]) < len[p]
          /\ ~open[Other(p)]
          /\ Exit(p, on_payload_err)
          /\ UNCHANGED <<cipher, rcvd>>
    /\ UNCHANGED <<keys, encrypted, len, sent, wire, lab>>

\* The environment ends the process of p at any point (a signal, a crash),
\* whether the other process is still running or not, and its end of the
\* connection closes.
Kill(p) ==
    /\ outcome[p] = "running"
    /\ Exit(p, "killed")
    /\ UNCHANGED <<keys, cipher, encrypted, len, logs, ops, lab>>

Next ==
    \E p \in Peers :
        \/ Keygen(p)
        \/ DhWrite(p)
        \/ DhRead(p)
        \/ Input(p)
        \/ SendHdr(p)
        \/ SendBody(p)
        \/ RecvHdr(p)
        \/ RecvBody(p)
        \/ Kill(p)

Spec == Init /\ [][Next]_vars

\* The steps of perform_dh_exchange in the process of p.
DhStep(p) == Keygen(p) \/ DhWrite(p) \/ DhRead(p)

\* A process inside perform_dh_exchange that can take its next step takes it:
\* the operating system schedules both processes, and the handshake waits
\* for nothing but the peer's bytes.  Nothing obliges the environment to end
\* a process, nor the operator to type.
FairSpec == Spec /\ \A p \in Peers : WF_vars(DhStep(p))

(***************************************************************************)
(* Properties.                                                             *)
(***************************************************************************)
Established(p) == secret[p] # NoKey

\* C1: after the handshake, whatever the turns taken and the payloads typed,
\* the i-th envelope a peer has decoded is exactly the plaintext of the i-th
\* envelope the other peer encoded, in both directions.
C1_RoundTrip ==
    \A p \in Peers :
        /\ Len(rcvd[p]) <= Len(sent[Other(p)])
        /\ \A i \in 1..Len(rcvd[p]) : rcvd[p][i] = sent[Other(p)][i]

\* Two envelopes decoded in each direction, the later ones not empty.
C1_Witness ==
    /\ \A p \in Peers : Len(rcvd[p]) = MaxMsgs
    /\ \A p \in Peers : rcvd[p][MaxMsgs] # <<>> /\ rcvd[p][MaxMsgs] = sent[Other(p)][MaxMsgs]
    /\ rcvd["server"][1] # <<>>

\* C2: for private keys a and b of [2, P - 2], the secret the client derives
\* from the server's public value equals the secret the server derives from
\* the client's public value.
C2_SameSecret ==
    (\A p \in Peers : Established(p)) => secret["client"] = secret["server"]

\* Both secrets derived from the largest private key and the key
\* 0xB2D3943EF052F84F.
C2_Witness ==
    /\ \A p \in Peers : Established(p)
    /\ priv["client"] = Sub(P, U64(2))
    /\ priv["server"] = <<\h4F, \hF8, \h52, \hF0, \h3E, \h94, \hD3, \hB2>>

\* x is an initial part of the sequence y.
IsPrefix(x, y) == Len(x) <= Len(y) /\ x = SubSeq(y, 1, Len(x))

\* The handshake operations a peer has attempted, in order.
DhOps(p) == SubSeq(ops[p], 1, IF Len(ops[p]) < 2 THEN Len(ops[p]) ELSE 2)

\* The server reads the client's public value before it writes its own, the
\* client writes its own before it reads the server's, and the value a peer
\* has read is the value the other peer sent.
C3_Order ==
    /\ IsPrefix(DhOps("server"), <<"dh_read", "dh_write">>)
    /\ IsPrefix(DhOps("client"), <<"dh_write", "dh_read">>)
    /\ \A p \in Peers : their[p] # NoKey => their[p] = pub[Other(p)]
    /\ \A p \in Peers : Established(p) => their[p] # NoKey /\ Len(ops[p]) >= 2

\* The connection fails when the environment ends one of the processes.
ConnectionFailed == \E p \in Peers : outcome[p] = "killed"

\* C3: in the handshake the server reads before it writes and the client
\* writes before it reads, each receives exactly the public value the other
\* sent, and on a connection that does not fail both peers eventually finish
\* the handshake.
C3_Handshake ==
    /\ []C3_Order
    /\ <>((\A p \in Peers : Established(p)) \/ ConnectionFailed)

\* Both peers have finished the handshake with two different private keys,
\* each holding the other's public value.
C3_Witness ==
    /\ \A p \in Peers : Established(p) /\ their[p] = pub[Other(p)]
    /\ ops["server"] = <<"dh_read", "dh_write">>
    /\ SubSeq(ops["client"], 1, 2) = <<"dh_write", "dh_read">>
    /\ pub["client"] # pub["server"]
    /\ ~ConnectionFailed

(***************************************************************************)
(* modular_pow on its own: the inputs are drawn when the study starts and  *)
(* one call computes the result.                                           *)
(***************************************************************************)
\* 2^64 - 1
MaxU64 == [i \in 1..U64Bytes |-> 255]

PowBases == {U64(0), U64(2), U64(45), Sub(P, U64(1)), MaxU64}
PowExps == {U64(0), U64(1), U64(5), Sub(P, U64(2)), MaxU64}
PowModuli == {U64(1), U64(2), U64(97), M, P, MaxU64}

InitPow ==
    /\ Connected
    /\ lab \in {[base |-> base, exp |-> exp, modulus |-> modulus, out |-> NoKey] :
                  base \in PowBases, exp \in PowExps, modulus \in PowModuli}

CallModularPow ==
    /\ lab.out = NoKey
    /\ lab' = [lab EXCEPT !.out = modular_pow(lab.base, lab.exp, lab.modulus)]
    /\ UNCHANGED session

NextPow == CallModularPow

SpecPow == InitPow /\ [][NextPow]_vars

\* x * y mod m without overflow: the operands, below 2^64, are multiplied
\* in 128 bits.
MulMod(x, y, m) ==
    Resize(Rem(wrapping_mul(Resize(x, U128Bytes), Resize(y, U128Bytes)),
               Resize(m, U128Bytes)), U64Bytes)

\* One round of the reference, from the leading bit of exp down, on the loop
\* state <<r, k>>: base^(2e + b) = (base^e)^2 * base^b.
RefRound(st, base, exp, modulus) ==
    CHOOSE out \in
        {<<IF Bit(exp, k) = 1 THEN MulMod(sq, base, modulus) ELSE sq, k - 1>> :
            sq \in {MulMod(st[1], st[1], modulus)}, k \in {st[2]}} : TRUE

\* base^exp mod modulus, for modulus > 1.
RefPow(base, exp, modulus) ==
    CHOOSE out \in
        {Iterate(LAMBDA st : RefRound(st, b, e, m),
                 <<U64(1), 8 * Len(e)>>, 8 * Len(e))[1] :
            b \in {Rem(base, modulus)}, e \in {Tup(exp)}, m \in {Tup(modulus)}} : TRUE

\* The inputs are small enough for the integers of the model.
SmallPow == lab.base \in {U64(0), U64(2), U64(45)} /\ lab.exp \in {U64(0), U64(1), U64(5)}
            /\ lab.modulus \in {U64(2), U64(97)}

\* C4: for modulus > 1 modular_pow returns base^exp mod modulus, the power
\* taken without overflow (1 mod modulus for exp = 0), and for modulus 1 it
\* returns 0.
C4_ModularPow ==
    lab.out # NoKey =>
        /\ lab.modulus = U64(1) => lab.out = U64(0)
        /\ lab.modulus # U64(1) => lab.out = RefPow(lab.base, lab.exp, lab.modulus)
        /\ SmallPow =>
             ToNat(lab.out) = (IF lab.exp = U64(0) THEN 1
                               ELSE ToNat(lab.base) ^ ToNat(lab.exp)) % ToNat(lab.modulus)
        /\ (lab.exp = U64(0) /\ lab.modulus # U64(1)) => lab.out = U64(1)

\* A result for the largest base and exponent modulo the prime, where the
\* products exceed 64 bits.
C4_Witness ==
    /\ lab.out # NoKey
    /\ lab.base = MaxU64
    /\ lab.exp = MaxU64
    /\ lab.modulus = P
    /\ lab.out # U64(0)

(***************************************************************************)
(* StreamCipher on its own: a seed and two byte strings are drawn when the *)
(* study starts; one generator encrypts the two strings one after the      *)
(* other, a second one encrypts their concatenation, and a third decrypts  *)
(* what the second produced.                                               *)
(***************************************************************************)
\* Longest byte string of the study.
MaxLen == 2

\* Seeds: 0, 1, a shared secret, and 2^64 - 1 (A * seed overflows 64 bits).
Seeds == {U64(0), U64(1), <<16, 109, 101, 117, 76, 216, 7, 80>>, MaxU64}

ByteStrings == UNION {[1..n -> {0, 104, 255}] : n \in 0..MaxLen}

InitCipher ==
    /\ Connected
    /\ lab \in {[seed |-> seed, b1 |-> b1, b2 |-> b2,
                 cipher |-> StreamCipher(seed), parts |-> <<>>,
                 whole |-> <<>>, plain |-> <<>>] :
                  seed \in Seeds, b1 \in ByteStrings, b2 \in ByteStrings}

\* The first generator encrypts b1, then b2.
EncryptPart ==
    /\ Len(lab.parts) < 2
    /\ \E r \in {encrypt(lab.cipher, IF lab.parts = <<>> THEN lab.b1 ELSE lab.b2)} :
         lab' = [lab EXCEPT !.cipher = r.self, !.parts = Append(@, r.out)]
    /\ UNCHANGED session

\* A fresh generator of the same seed encrypts b1 followed by b2.
EncryptWhole ==
    /\ lab.whole = <<>>
    /\ lab' = [lab EXCEPT
                 !.whole = <<encrypt(StreamCipher(lab.seed), lab.b1 \o lab.b2)>>]
    /\ UNCHANGED session

\* Another fresh generator of the same seed decrypts the ciphertext.
DecryptWhole ==
    /\ lab.whole # <<>>
    /\ lab.plain = <<>>
    /\ lab' = [lab EXCEPT
                 !.plain = <<decrypt(StreamCipher(lab.seed), lab.whole[1].out).out>>]
    /\ UNCHANGED session

NextCipher == EncryptPart \/ EncryptWhole \/ DecryptWhole

SpecCipher == InitCipher /\ [][NextCipher]_vars

\* C5: decrypting, with a second generator of the same seed, what a
\* generator of that seed encrypted gives back the bytes encrypted, and the
\* ciphertext is as long as the plaintext.
C5_RoundTrip ==
    /\ lab.whole # <<>> => Len(lab.whole[1].out) = Len(lab.b1 \o lab.b2)
    /\ lab.plain # <<>> => lab.plain[1] = lab.b1 \o lab.b2

\* A two-part message of full length decrypted under the seed 2^64 - 1, the
\* ciphertext differing from the plaintext.
C5_Witness ==
    /\ lab.plain # <<>>
    /\ lab.plain[1] = lab.b1 \o lab.b2
    /\ Len(lab.plain[1]) = 2 * MaxLen
    /\ lab.whole[1].out # lab.plain[1]
    /\ lab.seed = MaxU64

\* C6: the bytes a generator produces depend only on the seed and on how
\* many were drawn before, not on how the calls are split over encrypt
\* calls: b1 then b2 encrypted by one generator are the bytes of b1 + b2
\* encrypted by a fresh generator of the same seed, and both generators end
\* in the same state.
C6_SplitIndependent ==
    (Len(lab.parts) = 2 /\ lab.whole # <<>>) =>
        /\ lab.parts[1] \o lab.parts[2] = lab.whole[1].out
        /\ lab.cipher = lab.whole[1].self

\* Both parts non-empty and encrypted both ways.
C6_Witness ==
    /\ Len(lab.parts) = 2
    /\ lab.whole # <<>>
    /\ Len(lab.parts[1]) = MaxLen
    /\ Len(lab.parts[2]) = MaxLen
    /\ lab.parts[1] \o lab.parts[2] = lab.whole[1].out

(***************************************************************************)
(* The session again: keystream positions and the ends of a session.       *)
(***************************************************************************)
RECURSIVE Flatten(_)
\* The byte strings of a sequence, one after the other.
Flatten(seqs) == IF seqs = <<>> THEN <<>> ELSE Head(seqs) \o Flatten(Tail(seqs))

Last(seq) == seq[Len(seq)]

\* C7: in each direction the i-th payload byte ever written is the i-th
\* plaintext byte XORed with the i-th output of a generator seeded with the
\* shared secret that started at position zero when the channel was
\* established and advanced one step per payload byte of that direction.
C7_KeystreamFromZero ==
    \A p \in Peers :
        Established(p) =>
            Flatten(wire[p])
              = encrypt(StreamCipher(secret[p]),
                        Flatten(SubSeq(sent[p], 1, Len(wire[p])))).out

\* C8: a peer whose local input is at its end on a send turn writes no
\* envelope from then on, and its session ends normally.
C8_EofEndsSession ==
    \A p \in Peers :
        \A i \in 1..Len(ops[p]) :
            ops[p][i] = "stdin_eof" =>
                /\ \A j \in (i + 1)..Len(ops[p]) :
                       ops[p][j] \notin {"write_hdr", "write_body"}
                /\ pc[p] = "done" => outcome[p] \in {"ok", "killed"}

\* C9: a peer whose payload read fails, the connection having closed after
\* the whole length header was read, ends as it does when the header read
\* fails: without an error.
C9_TruncatedPayloadEndsClean ==
    \A p \in Peers :
        (pc[p] = "done" /\ ops[p] # <<>> /\ Last(ops[p]) = "read_body")
            => outcome[p] # "err"

\* The header read of p failed and ended its session.
HeaderReadFailed(p) ==
    /\ pc[p] = "done"
    /\ outcome[p] # "killed"
    /\ ops[p] # <<>>
    /\ Last(ops[p]) = "read_hdr"

\* A process that ended attempts nothing more on the connection or on its
\* local input.
ClosedIsTerminal ==
    \A p \in Peers :
        pc[p] = "done" =>
            /\ pc'[p] = "done"
            /\ outcome'[p] = outcome[p]
            /\ ops'[p] = ops[p]
            /\ sent'[p] = sent[p] /\ rcvd'[p] = rcvd[p] /\ wire'[p] = wire[p]
            /\ net'[Other(p)] = net[Other(p)] \/ Len(net'[Other(p)]) < Len(net[Other(p)])

\* C10: a peer whose header read fails because the connection closed ends
\* with success, and once ended it reads and writes nothing more.
C10_CleanClose ==
    /\ [](\A p \in Peers : HeaderReadFailed(p) => outcome[p] = "ok")
    /\ [][ClosedIsTerminal]_vars

\* A peer ended with success on a failed header read after it had decoded an
\* envelope.
C10_Witness ==
    \E p \in Peers :
        /\ HeaderReadFailed(p)
        /\ outcome[p] = "ok"
        /\ rcvd[p] # <<>>
        /\ net[p] = <<>>

(***************************************************************************)
(* Turns.                                                                  *)
(***************************************************************************)
\* The operations of p after the handshake, in order.
ChatOps(p) == SubSeq(ops[p], 3, Len(ops[p]))

\* A send turn reads a line and writes the header and the payload; a
\* receive turn reads the header and the payload.
SendTurn == <<"stdin", "write_hdr", "write_body">>
RecvTurn == <<"read_hdr", "read_body">>

\* The turns of p in the order the claim gives them: the client starts with
\* a send turn, the server with a receive turn.
TurnCycle(p) == IF p = "client" THEN SendTurn \o RecvTurn ELSE RecvTurn \o SendTurn

OpKind(op) == IF op \in {"stdin_eof", "stdin_err"} THEN "stdin" ELSE op

\* C11: once the channel is established the server's first turn is a
\* receive and the client's first turn is a send, and each peer alternates
\* send and receive turns from then on: it never sends twice or receives
\* twice in a row.
C11_TurnsAlternate ==
    \A p \in Peers :
        \A i \in 1..Len(ChatOps(p)) :
            OpKind(ChatOps(p)[i])
              = TurnCycle(p)[((i - 1) % Len(TurnCycle(p))) + 1]

\* Both peers have completed two send turns and two receive turns.
C11_Witness ==
    \A p \in Peers :
        /\ Len(ChatOps(p)) = 2 * Len(TurnCycle(p))
        /\ Len(sent[p]) = 2
        /\ Len(rcvd[p]) = 2

(***************************************************************************)
(* The two directions.                                                     *)
(***************************************************************************)
\* Number of payload bytes p encoded before its k-th envelope.
SentBefore(p, k) == Len(Flatten(SubSeq(sent[p], 1, k - 1)))

\* The k-th envelope of p as the program encodes it when p has received
\* only empty payloads so far: the long-lived cipher has then been advanced
\* by the keystream preview and by the bytes p sent, and by nothing else.
\* If the keystream of an outbound envelope depends only on the shared
\* secret and on the bytes sent before in the same direction, this is the
\* envelope whatever p has received.
OwnDirectionEnvelope(p, k) ==
    Encode(Positioned(secret[p],
                      Skip(print_keystream(StreamCipher(secret[p]), 12),
                           SentBefore(p, k))),
           NoCipher, sent[p][k]).encrypted

\* C12: the keystream bytes that encode an outbound envelope depend only on
\* the shared secret and on the bytes sent before in the same direction, not
\* on the number or the length of the envelopes received in the other
\* direction.
C12_DirectionsIndependent ==
    \A p \in Peers :
        \A k \in 1..Len(wire[p]) : wire[p][k] = OwnDirectionEnvelope(p, k)

(***************************************************************************)
(* The transcript.                                                         *)
(***************************************************************************)
\* The k-th envelope of p as the program encodes it with the transcript
\* left out: without print_keystream and without the "Key:" loops nothing
\* calls next_byte on the long-lived cipher, which stays as
\* StreamCipher::new(shared_secret) made it.
SilentEnvelope(p, k) ==
    encrypt(Positioned(secret[p], StreamCipher(secret[p])), sent[p][k]).out

\* C13: emitting the transcript (the keystream preview and the "Key:"
\* lines) has no effect on the protocol: the bytes written to the connection
\* are those written without it, and the plaintext delivered is the
\* plaintext sent.
C13_TranscriptHasNoEffect ==
    \A p \in Peers :
        /\ \A k \in 1..Len(wire[p]) : wire[p][k] = SilentEnvelope(p, k)
        /\ \A k \in 1..Len(rcvd[p]) : rcvd[p][k] = sent[Other(p)][k]
\* The position of the long-lived cipher of p when it encodes its k-th
\* envelope: the state left by the 12 preview bytes and by every payload
\* byte p has encoded and decoded before.
HandledBefore(p, k) ==
    Len(Flatten(SubSeq(sent[p], 1, k - 1)))
      + Len(Flatten(SubSeq(rcvd[p], 1, IF is_server(p) THEN k ELSE k - 1)))

StartPosition(p, k) ==
    Skip(print_keystream(StreamCipher(secret[p]), 12), HandledBefore(p, k)).state

\* The keystream positions of the generator seeded with the shared secret
\* that encode the k-th envelope of p: the fresh generator has made
\* StartPosition(p, k) steps, and makes one more for each payload byte.
Positions(p, k) ==
    {wrapping_add(StartPosition(p, k), U64(i)) : i \in 1..Len(sent[p][k])}

Envelopes == {e \in Peers \X (1..MaxMsgs) : e[2] <= Len(sent[e[1]])}

\* C14: over any sequence of turns on one connection, no keystream position
\* of the generator seeded with the shared secret encodes payload bytes of
\* two different envelopes.
C14_KeystreamNeverRepeats ==
    \A e1, e2 \in Envelopes :
        e1 # e2 => Positions(e1[1], e1[2]) \cap Positions(e2[1], e2[2]) = {}

\* The k-th envelope p has read is an empty one: the ciphertext is as long
\* as the plaintext the other peer encoded.
EmptyReceived(p, k) == k <= Len(rcvd[p]) /\ sent[Other(p)][k] = <<>>

\* The first envelope p sends after it has read its k-th.
FirstReplyAfter(p, k) == IF is_server(p) THEN k ELSE k + 1

\* A step in which p reads the payload of an envelope of length 0 appends an
\* empty payload to what p has decoded and takes p on to its send turn.
EmptyPayloadRead ==
    \A p \in Peers :
        (pc[p] = "recv_body" /\ len[p] = 0 /\ pc'[p] # pc[p]
           /\ outcome'[p] # "killed")
        => /\ rcvd'[p] = Append(rcvd[p], <<>>)
           /\ outcome'[p] = "running"
           /\ pc'[p] = "input"

\* Every envelope exchanged after an empty one, in either direction, is
\* decoded to the plaintext that was sent.
DecodedAfterEmpty ==
    \A p \in Peers : \A k \in 1..MaxMsgs :
        EmptyReceived(p, k) =>
            /\ rcvd[p][k] = <<>>
            /\ \A j \in (k + 1)..Len(rcvd[p]) : rcvd[p][j] = sent[Other(p)][j]
            /\ \A j \in FirstReplyAfter(p, k)..Len(rcvd[Other(p)]) :
                   rcvd[Other(p)][j] = sent[p][j]

\* C15: an envelope with length 0 is accepted by the receiver and decodes to
\* an empty payload without ending the session, and the envelopes exchanged
\* after it in either direction are still decoded to exactly the plaintext
\* that was sent.
C15_EmptyEnvelope == [][EmptyPayloadRead]_vars /\ []DecodedAfterEmpty

\* The server has read an empty first envelope, the client has decoded the
\* server's reply, the server the client's second envelope, neither of the
\* two empty, and both processes are running.
C15_Witness ==
    /\ EmptyReceived("server", 1)
    /\ Len(rcvd["client"]) >= 1 /\ rcvd["client"][1] # <<>>
    /\ Len(rcvd["server"]) = 2 /\ rcvd["server"][2] # <<>>
    /\ \A p \in Peers : outcome[p] = "running"

\* The last operation p attempted was a step of the handshake, and p ended
\* with the error it returned.
FailedInHandshake(p) ==
    /\ outcome[p] = "err"
    /\ ops[p] # <<>>
    /\ Last(ops[p]) \in {"dh_read", "dh_write"}

\* A peer whose handshake failed has attempted each handshake step at most
\* once, holds no shared secret and no cipher, and has encoded, written,
\* read and decoded nothing of the chat.
AbortedHandshake ==
    \A p \in Peers :
        FailedInHandshake(p) =>
            /\ pc[p] = "done" /\ ~open[p]
            /\ IsPrefix(ops[p], IF is_server(p) THEN <<"dh_read", "dh_write">>
                                ELSE <<"dh_write", "dh_read">>)
            /\ secret[p] = NoKey
            /\ cipher[p] = NoCipher
            /\ sent[p] = <<>> /\ wire[p] = <<>> /\ rcvd[p] = <<>>

\* A step of the handshake that returns an error ends the process, and a
\* process that ended so attempts nothing more.
NothingAfterAbort ==
    \A p \in Peers :
        /\ (pc[p] \in {"dh_read", "dh_write"} /\ outcome'[p] = "err")
           => pc'[p] = "done" /\ secret'[p] = NoKey /\ cipher'[p] = NoCipher
        /\ FailedInHandshake(p)
           => /\ ops'[p] = ops[p] /\ pc'[p] = pc[p]
              /\ secret'[p] = secret[p] /\ cipher'[p] = cipher[p]
              /\ outcome'[p] = outcome[p]

\* C16: a read or write failure at any step of the handshake aborts it with
\* an error and is never retried: the peer derives no shared secret, creates
\* no keystream generator, and sends or receives no envelope on that
\* connection afterwards.
C16_HandshakeAbort == []AbortedHandshake /\ [][NothingAfterAbort]_vars

\* The client has written its public value and failed to read the server's.
C16_Witness ==
    /\ FailedInHandshake("client")
    /\ ops["client"] = <<"dh_write", "dh_read">>

(***************************************************************************)
(* next_byte on its own: a 64-bit seed is drawn when the study starts and  *)
(* one generator made from it is stepped; the state before each call and   *)
(* the byte each call returned are recorded.                               *)
(***************************************************************************)
\* Most calls of next_byte on one generator.
MaxCalls == 3

\* Seeds of the cipher study, and 64-bit values with every mix of low and
\* high halves: A * seed overflows 64 bits for all that are 2^34 or more.
LcgSeeds ==
    Seeds \cup {<<b1, 255, 255, b4, b5, 0, 0, b8>> :
                  b1 \in {0, 255}, b4 \in {127, 255}, b5 \in {0, 1, 255},
                  b8 \in {0, 128, 255}}

InitLcg ==
    /\ Connected
    /\ lab \in {[seed |-> seed, cipher |-> StreamCipher(seed),
                 before |-> <<>>, bytes |-> <<>>] : seed \in LcgSeeds}

\* let byte = cipher.next_byte();
CallNextByte ==
    /\ Len(lab.bytes) < MaxCalls
    /\ \E r \in {next_byte(lab.cipher)} :
         lab' = [lab EXCEPT !.cipher = r.self,
                            !.before = Append(@, lab.cipher.state),
                            !.bytes = Append(@, r.byte)]
    /\ UNCHANGED session

NextLcg == CallNextByte

SpecLcg == InitLcg /\ [][NextLcg]_vars

\* (A * state + C) mod 2^32 with the product and the sum taken in 128 bits,
\* where they cannot overflow.
ExactStep(state) ==
    Resize(Rem(wrapping_add(wrapping_mul(U128(A), Resize(state, U128Bytes)),
                            U128(C)),
               Resize(M, U128Bytes)), U64Bytes)

\* The state after the i-th call.
StateAfter(i) ==
    IF i < Len(lab.before) THEN lab.before[i + 1] ELSE lab.cipher.state

\* A * state is 2^64 or more: the high half of the 128-bit product is not 0.
MulOverflows(state) ==
    ~IsZero(SubSeq(wrapping_mul(U128(A), Resize(state, U128Bytes)),
                   U64Bytes + 1, U128Bytes))

\* C17: for every 64-bit state, also one for which A * state overflows 64
\* bits, next_byte sets the state to exactly (A * state + C) mod 2^32 and
\* returns the low 8 bits of the new state; after the first call the state is
\* below 2^32.
C17_NextByte ==
    \A i \in 1..Len(lab.bytes) :
        /\ StateAfter(i) = ExactStep(lab.before[i])
        /\ U64(lab.bytes[i]) = Rem(StateAfter(i), U64(256))
        /\ Less(StateAfter(i), M)

\* Three calls on a generator whose seed A overflows on, the seed itself
\* not below 2^32, and the bytes returned not all the same.
C17_Witness ==
    /\ Len(lab.bytes) = MaxCalls
    /\ MulOverflows(lab.seed)
    /\ ~Less(lab.seed, M)
    /\ lab.bytes[1] # lab.bytes[2]

\* No envelope is in flight: both peers are in the turn loop, one about to
\* read a line to send and the other about to read a header, and nothing is
\* on the connection.
AtTurnBoundary ==
    /\ \A p \in Peers : Established(p) /\ outcome[p] = "running"
    /\ \E p \in Peers : pc[p] = "input" /\ pc[Other(p)] = "recv_hdr"
    /\ \A p \in Peers : net[p] = <<>>

\* C18: whenever no envelope is in flight, each peer being at a turn
\* boundary, the states of the long-lived ciphers of the two peers are equal,
\* whatever the turns taken and the payload lengths, so that the fresh
\* generators both peers build next are advanced by the same number of steps.
C18_PositionsAgree ==
    AtTurnBoundary =>
        /\ cipher["client"].state = cipher["server"].state
        /\ secret["client"] = secret["server"]

\* A turn boundary after payloads of different lengths have gone both ways,
\* the ciphers no longer where the preview left them.
C18_Witness ==
    /\ AtTurnBoundary
    /\ Len(rcvd["server"]) = 2 /\ Len(rcvd["client"]) = 1
    /\ Len(rcvd["server"][1]) = 2
    /\ Len(rcvd["client"][1]) = 3
    /\ rcvd["server"][2] = <<>>
    /\ cipher["server"] # print_keystream(StreamCipher(secret["server"]), 12)

\* The headers p has written: the writes it attempted, less the one that
\* failed.
HeadersWritten(p) ==
    Cardinality({i \in 1..Len(ops[p]) : ops[p][i] = "write_hdr"})
      - (IF outcome[p] = "err" /\ Last(ops[p]) = "write_hdr" THEN 1 ELSE 0)

\* The envelopes of p under way: those whose header p has written, less
\* those the other peer has read to the end.
InFlight(p) == HeadersWritten(p) - Len(rcvd[Other(p)])

\* p is blocked in a read of the connection.
WaitsToReceive(p) ==
    /\ pc[p] \in {"recv_hdr", "recv_body"}
    /\ outcome[p] = "running"

\* Both peers wait to receive, no envelope is under way and both ends of the
\* connection are open.
MutualWait ==
    /\ \A p \in Peers : WaitsToReceive(p) /\ open[p]
    /\ InFlight("client") + InFlight("server") = 0

\* C19: in every state of an established session at most one envelope is in
\* flight over both directions together, and the two peers are never both
\* blocked waiting to receive while none is in flight and the connection is
\* open.
C19_NoMutualWait ==
    (\A p \in Peers : Established(p)) =>
        /\ \A p \in Peers : InFlight(p) >= 0
        /\ InFlight("client") + InFlight("server") <= 1
        /\ ~MutualWait

\* The server's reply to the client's first envelope is in flight: its
\* header is written, the client waits to receive, and both ends are open.
C19_Witness ==
    /\ \A p \in Peers : Established(p) /\ open[p]
    /\ Len(rcvd["server"]) = 1
    /\ pc["server"] = "send_body"
    /\ encrypted["server"] # <<>>
    /\ InFlight("server") = 1
    /\ WaitsToReceive("client")

====
